---------------------------- MODULE Spec2Model ----------------------------
(***************************************************************************)
(* Slot validation and date normalisation of the hotel booking form        *)
(* (actions/actions.py).  Text is modelled character by character: a       *)
(* Python str is a sequence of one-character strings, so that lower(),     *)
(* strip(), the regular expressions, strptime and strftime are computed as *)
(* the code computes them.                                                 *)
(***************************************************************************)
EXTENDS Integers, Sequences, FiniteSets, TLC

VARIABLES
    clock,   \* the wall clock datetime.now() reads: [y, m, d, t]; t = 0 is 00:00:00.000000, t = 1 later that day
    ticks,   \* how many times the clock has advanced (bounded by MaxTicks)
    calls,   \* how many invocations the behaviour has made (bounded by MaxCalls)
    slots,   \* the tracker's slots check_in_date, check_out_date, initial_message
    call     \* the most recent invocation: its operation, inputs, clock samples, result, messages

vars == <<clock, ticks, calls, slots, call>>

-----------------------------------------------------------------------------
(* Bounds of the model *)

\* first calendar year of the exhaustive reference dates
BaseYear == 2023
\* number of consecutive years of reference dates (2023 is a common year, 2024 a leap year)
SpanYears == 2
\* how often the clock may advance within one behaviour of Spec
MaxTicks == 1
\* how many invocations (initial-message action, validators) one behaviour of Spec makes
MaxCalls == 2
\* largest stay duration tried by the check-out derivation specification
MaxDuration == 3

-----------------------------------------------------------------------------
(* Characters and Python str methods *)

UpperLetters == <<"A","B","C","D","E","F","G","H","I","J","K","L","M",
                  "N","O","P","Q","R","S","T","U","V","W","X","Y","Z">>
LowerLetters == <<"a","b","c","d","e","f","g","h","i","j","k","l","m",
                  "n","o","p","q","r","s","t","u","v","w","x","y","z">>
DigitChars == <<"0","1","2","3","4","5","6","7","8","9">>

Range(f) == {f[i] : i \in DOMAIN f}
Min(S) == CHOOSE x \in S : \A y \in S : x <= y

UpperSet == Range(UpperLetters)
LowerSet == Range(LowerLetters)
\* \d
DigitSet == Range(DigitChars)
\* \s (the texts of the model hold no whitespace other than the blank)
SpaceSet == {" "}
\* \w
WordSet == UpperSet \cup LowerSet \cup DigitSet \cup {"_"}

IsUpper(c) == c \in UpperSet
IsLower(c) == c \in LowerSet
IsAlpha(c) == IsUpper(c) \/ IsLower(c)
IsDigit(c) == c \in DigitSet
IsSpace(c) == c \in SpaceSet
IsWord(c) == c \in WordSet

IndexOf(c, seq) == CHOOSE i \in DOMAIN seq : seq[i] = c
LowerChar(c) == IF IsUpper(c) THEN LowerLetters[IndexOf(c, UpperLetters)] ELSE c
UpperChar(c) == IF IsLower(c) THEN UpperLetters[IndexOf(c, LowerLetters)] ELSE c
DigitVal(c) == IndexOf(c, DigitChars) - 1

\* str.lower()
Lower(s) == [i \in 1..Len(s) |-> LowerChar(s[i])]

\* str.strip()
Strip(s) ==
    LET keep == {i \in 1..Len(s) : ~IsSpace(s[i])}
    IN  IF keep = {} THEN <<>>
        ELSE LET lo == CHOOSE i \in keep : \A j \in keep : i <= j
                 hi == CHOOSE i \in keep : \A j \in keep : j <= i
             IN  SubSeq(s, lo, hi)

\* str.isdigit()
IsDigitStr(s) == Len(s) > 0 /\ \A i \in 1..Len(s) : IsDigit(s[i])

\* str.title(): a letter that follows a letter is lowered, any other letter is raised
Title(s) ==
    [i \in 1..Len(s) |->
        IF i > 1 /\ IsAlpha(s[i-1]) THEN LowerChar(s[i]) ELSE UpperChar(s[i])]

\* sub is found in s at position i
MatchAt(s, i, sub) ==
    /\ i >= 1
    /\ i + Len(sub) - 1 <= Len(s)
    /\ \A k \in 1..Len(sub) : s[i + k - 1] = sub[k]

\* the Python expression `sub in s`
Contains(s, sub) == \E i \in 1..(Len(s) + 1) : MatchAt(s, i, sub)

\* the index just past the longest run of characters of the class C that starts at i
RunEnd(s, i, C) == Min({j \in i..(Len(s) + 1) : j = Len(s) + 1 \/ s[j] \notin C})

\* int() of a run of decimal digits
RECURSIVE IntOf(_)
IntOf(ds) ==
    IF Len(ds) = 0 THEN 0
    ELSE 10 * IntOf(SubSeq(ds, 1, Len(ds) - 1)) + DigitVal(ds[Len(ds)])

-----------------------------------------------------------------------------
(* Values the dialogue manager hands over: None, a str, or a number.  A     *)
(* number is kept in tenths (27 is 2.7) so that float truncation shows;     *)
(* "nan" and "inf" are the two floats int() cannot convert.                 *)

None == [t |-> "none", s |-> <<>>, n |-> 0]
Str(s) == [t |-> "str", s |-> s, n |-> 0]
Num(tenths) == [t |-> "num", s |-> <<>>, n |-> tenths]
NaN == [t |-> "nan", s |-> <<>>, n |-> 0]
Inf == [t |-> "inf", s |-> <<>>, n |-> 0]

\* Python truthiness: `not v`
Falsy(v) ==
    \/ v.t = "none"
    \/ v.t = "str" /\ v.s = <<>>
    \/ v.t = "num" /\ v.n = 0

-----------------------------------------------------------------------------
(* The calendar of datetime *)

IsLeap(y) == (y % 4 = 0 /\ y % 100 # 0) \/ y % 400 = 0

DaysInMonth(y, m) ==
    IF m = 2 THEN (IF IsLeap(y) THEN 29 ELSE 28)
    ELSE IF m \in {4, 6, 9, 11} THEN 30 ELSE 31

\* date + timedelta(days=n), n >= 0; the time of day is kept
RECURSIVE AddDays(_, _)
AddDays(dt, n) ==
    IF dt.d + n <= DaysInMonth(dt.y, dt.m) THEN [dt EXCEPT !.d = dt.d + n]
    ELSE AddDays([y |-> IF dt.m = 12 THEN dt.y + 1 ELSE dt.y,
                  m |-> IF dt.m = 12 THEN 1 ELSE dt.m + 1,
                  d |-> 1,
                  t |-> dt.t],
                 n - (DaysInMonth(dt.y, dt.m) - dt.d) - 1)

\* datetime comparison a < b
Before(a, b) ==
    \/ a.y < b.y
    \/ a.y = b.y /\ a.m < b.m
    \/ a.y = b.y /\ a.m = b.m /\ a.d < b.d
    \/ a.y = b.y /\ a.m = b.m /\ a.d = b.d /\ a.t < b.t

MonthAbbr == << <<"j","a","n">>, <<"f","e","b">>, <<"m","a","r">>, <<"a","p","r">>,
                <<"m","a","y">>, <<"j","u","n">>, <<"j","u","l">>, <<"a","u","g">>,
                <<"s","e","p">>, <<"o","c","t">>, <<"n","o","v">>, <<"d","e","c">> >>

MonthFull == << <<"j","a","n","u","a","r","y">>, <<"f","e","b","r","u","a","r","y">>,
                <<"m","a","r","c","h">>, <<"a","p","r","i","l">>, <<"m","a","y">>,
                <<"j","u","n","e">>, <<"j","u","l","y">>, <<"a","u","g","u","s","t">>,
                <<"s","e","p","t","e","m","b","e","r">>, <<"o","c","t","o","b","e","r">>,
                <<"n","o","v","e","m","b","e","r">>, <<"d","e","c","e","m","b","e","r">> >>

\* strftime("%d %b"): zero-padded day, blank, capitalised month abbreviation
Strftime(dt) ==
    <<DigitChars[(dt.d \div 10) + 1], DigitChars[(dt.d % 10) + 1], " ">>
        \o Title(MonthAbbr[dt.m])

-----------------------------------------------------------------------------
(* datetime.strptime under the four formats of the code.  CPython compiles *)
(* the format to a regular expression matched from the start of the text,  *)
(* ignoring case: %d is 3[0-1]|[1-2]\d|0[1-9]|[1-9]| [1-9], a blank of the *)
(* format is \s+, %b and %B are the month names.  Text left over after the *)
(* match, and a day the month does not have in the default year 1900, are  *)
(* ValueErrors.                                                            *)

\* the %d directive at position i: the length and value of the first alternative that matches
DayAt(s, i) ==
    LET c1 == IF i <= Len(s) THEN s[i] ELSE ""
        c2 == IF i + 1 <= Len(s) THEN s[i + 1] ELSE ""
    IN  IF c1 = "3" /\ c2 \in {"0", "1"} THEN [len |-> 2, val |-> 30 + DigitVal(c2)]
        ELSE IF c1 \in {"1", "2"} /\ IsDigit(c2) THEN [len |-> 2, val |-> 10 * DigitVal(c1) + DigitVal(c2)]
        ELSE IF c1 = "0" /\ IsDigit(c2) /\ c2 # "0" THEN [len |-> 2, val |-> DigitVal(c2)]
        ELSE IF IsDigit(c1) /\ c1 # "0" THEN [len |-> 1, val |-> DigitVal(c1)]
        ELSE IF c1 = " " /\ IsDigit(c2) /\ c2 # "0" THEN [len |-> 2, val |-> DigitVal(c2)]
        ELSE [len |-> 0, val |-> 0]

\* the months whose name (from the table names) is found at position i
MonthsAt(s, i, names) == {m \in 1..12 : MatchAt(s, i, names[m])}

NoParse == [ok |-> FALSE, m |-> 0, d |-> 0]

\* "%d %b" (names = MonthAbbr) and "%d %B" (names = MonthFull)
StrptimeDayMonth(s, names) ==
    LET da == DayAt(s, 1)
        a  == 1 + da.len
        b  == RunEnd(s, a, SpaceSet)
        ms == MonthsAt(s, b, names)
    IN  IF da.len = 0 \/ b = a \/ ms = {} THEN NoParse
        ELSE LET m == CHOOSE x \in ms : TRUE
             IN  IF b + Len(names[m]) # Len(s) + 1 THEN NoParse
                 ELSE IF da.val > DaysInMonth(1900, m) THEN NoParse
                 ELSE [ok |-> TRUE, m |-> m, d |-> da.val]

\* "%b %d" (names = MonthAbbr) and "%B %d" (names = MonthFull)
StrptimeMonthDay(s, names) ==
    LET ms == MonthsAt(s, 1, names)
    IN  IF ms = {} THEN NoParse
        ELSE LET m  == CHOOSE x \in ms : TRUE
                 a  == 1 + Len(names[m])
                 b  == RunEnd(s, a, SpaceSet)
                 da == DayAt(s, b)
             IN  IF b = a \/ da.len = 0 THEN NoParse
                 ELSE IF b + da.len # Len(s) + 1 THEN NoParse
                 ELSE IF da.val > DaysInMonth(1900, m) THEN NoParse
                 ELSE [ok |-> TRUE, m |-> m, d |-> da.val]

\* datetime.strptime(text, fmt) for fmt the 1st..4th of ["%d %b", "%d %B", "%b %d", "%B %d"]
Strptime(text, fmt) ==
    IF fmt \in {1, 2}
    THEN StrptimeDayMonth(Lower(text), IF fmt = 1 THEN MonthAbbr ELSE MonthFull)
    ELSE StrptimeMonthDay(Lower(text), IF fmt = 3 THEN MonthAbbr ELSE MonthFull)

\* datetime.replace: the date exists
ValidDate(y, m, d) == m \in 1..12 /\ d >= 1 /\ d <= DaysInMonth(y, m)

\* parsed.replace(year=today.year), then replace(year=today.year + 1) if parsed < today;
\* a replace to a day the year does not have is a ValueError (ok = FALSE)
ResolveYear(p, today) ==
    LET thisYear == [y |-> today.y, m |-> p.m, d |-> p.d, t |-> 0]
    IN  IF ~ValidDate(today.y, p.m, p.d) THEN [ok |-> FALSE, dt |-> thisYear]
        ELSE IF Before(thisYear, today)
             THEN [ok |-> ValidDate(today.y + 1, p.m, p.d),
                   dt |-> [thisYear EXCEPT !.y = today.y + 1]]
             ELSE [ok |-> TRUE, dt |-> thisYear]

\* the formats of the loop that run to their return statement
Parses(p, today) == p.ok /\ ResolveYear(p, today).ok

ParsingFormats(text, today) == {f \in 1..4 : Parses(Strptime(text, f), today)}

-----------------------------------------------------------------------------
(* ValidateHotelBookingForm.parse_date *)

W_today == <<"t","o","d","a","y">>
W_tomorrow == {<<"t","o","m","o","r","r","o","w">>, <<"t","m","r","w">>, <<"t","o","m","m","o","r","o","w">>}
W_day_after == {<<"d","a","y"," ","a","f","t","e","r"," ","t","o","m","o","r","r","o","w">>,
                <<"d","a","y"," ","a","f","t","e","r"," ","t","m","r","w">>}
W_next_week == <<"n","e","x","t"," ","w","e","e","k">>
OrdinalSuffixes == {<<"s","t">>, <<"n","d">>, <<"r","d">>, <<"t","h">>}

\* re.match(r'^(\d{1,2})(st|nd|rd|th)?$', s): the digits of group 1, <<>> when there is no match
DayMatch(s) ==
    LET e == RunEnd(s, 1, DigitSet)
    IN  IF e \in {2, 3} /\ (e = Len(s) + 1 \/ SubSeq(s, e, Len(s)) \in OrdinalSuffixes)
        THEN SubSeq(s, 1, e - 1)
        ELSE <<>>

\* Variant of BareDay that stays in the current month only for a day after today's.
BareDay_StrictlyLater(s, today) ==
    LET digits == DayMatch(s)
        day    == IntOf(digits)
        y      == IF today.m = 12 THEN today.y + 1 ELSE today.y
        m      == IF today.m = 12 THEN 1 ELSE today.m + 1
    IN  IF digits = <<>> THEN [ok |-> FALSE, dt |-> today]
        ELSE IF day > today.d
        THEN [ok |-> day <= DaysInMonth(today.y, today.m), dt |-> [today EXCEPT !.d = day]]
        ELSE [ok |-> day >= 1 /\ day <= DaysInMonth(y, m),
              dt |-> [y |-> y, m |-> m, d |-> day, t |-> today.t]]

\* lines 36-51: the target date of a bare day of month; ok = FALSE when the step
\* does not return (no match, day outside 1..31, or replace raises ValueError)
TargetMonth(day, today) ==
    IF day >= today.d THEN [y |-> today.y, m |-> today.m]
    ELSE IF today.m = 12 THEN [y |-> today.y + 1, m |-> 1]
    ELSE [y |-> today.y, m |-> today.m + 1]

BareDayIn(matched, day, tm, today) ==
    [ok |-> matched /\ day >= 1 /\ day <= 31 /\ ValidDate(tm.y, tm.m, day),
     dt |-> [y |-> tm.y, m |-> tm.m, d |-> day, t |-> today.t]]

BareDayOf(g, today) == BareDayIn(g # <<>>, IntOf(g), TargetMonth(IntOf(g), today), today)

BareDay(s, today) == BareDayOf(DayMatch(s), today)

\* the result of a call that may raise: raised, or the returned str
Returned(s) == [raised |-> FALSE, s |-> s]
Raised == [raised |-> TRUE, s |-> <<>>]

\* lines 25-68 on the lowercased, stripped text s: bare is the outcome of the
\* bare-day step, fs the formats of the loop that return
Normalized(s, today, bare, fs) ==
    IF s = W_today THEN Returned(Strftime(today))
    ELSE IF s \in W_tomorrow THEN Returned(Strftime(AddDays(today, 1)))
    ELSE IF s \in W_day_after THEN Returned(Strftime(AddDays(today, 2)))
    ELSE IF Contains(s, W_next_week) THEN Returned(Strftime(AddDays(today, 7)))
    ELSE IF bare.ok THEN Returned(Strftime(bare.dt))
    ELSE IF fs # {} THEN Returned(Strftime(ResolveYear(Strptime(s, Min(fs)), today).dt))
    ELSE Returned(s)

\* lines 22-68 on the lowercased, stripped text s
ParseLowered(s, today) == Normalized(s, today, BareDay(s, today), ParsingFormats(s, today))

parse_date(date_string, today) ==
    IF Falsy(date_string) THEN Returned(<<>>)
    ELSE IF date_string.t # "str" THEN Raised      \* .lower() of a number: AttributeError
    ELSE ParseLowered(Strip(Lower(date_string.s)), today)

-----------------------------------------------------------------------------
(* ValidateHotelBookingForm.calculate_checkout: a duration that overflows   *)
(* datetime (beyond year 9999) is outside the bounds of the model.          *)

\* lines 149-164: fs are the formats of the loop that return
CheckoutFrom(checkin_date, duration_days, today, fs) ==
    IF fs # {}
    THEN Strftime(AddDays(ResolveYear(Strptime(checkin_date, Min(fs)), today).dt,
                          duration_days))
    ELSE checkin_date

calculate_checkout(checkin_date, duration_days, today) ==
    CheckoutFrom(checkin_date, duration_days, today, ParsingFormats(checkin_date, today))

-----------------------------------------------------------------------------
(* ValidateHotelBookingForm.is_valid_date *)

non_date_words ==
    {<<"b","a","n","a","n","a">>,
     <<"h","e","l","l","o">>,
     <<"h","i">>,
     <<"t","h","a","n","k","s">>,
     <<"p","l","e","a","s","e">>,
     <<"y","e","s">>,
     <<"n","o">>,
     <<"o","k">>,
     <<"o","k","a","y">>,
     <<"s","u","r","e">>}

\* re.search(r'\d+\s+\w+', s): a digit, one or more blanks, a word character
DigitsThenWord(s) ==
    \E i \in 1..Len(s) :
        /\ IsDigit(s[i])
        /\ LET b == RunEnd(s, i + 1, SpaceSet)
           IN  b > i + 1 /\ b <= Len(s) /\ IsWord(s[b])

\* re.search(r'\w+\s+\d+', s): a word character, one or more blanks, a digit
WordThenDigits(s) ==
    \E i \in 1..Len(s) :
        /\ IsWord(s[i])
        /\ LET b == RunEnd(s, i + 1, SpaceSet)
           IN  b > i + 1 /\ b <= Len(s) /\ IsDigit(s[b])

\* re.search(r'\d+\s+\w+\s+\d+', s)
DigitsWordDigits(s) ==
    \E i \in 1..Len(s) :
        /\ IsDigit(s[i])
        /\ LET b == RunEnd(s, i + 1, SpaceSet)
               c == RunEnd(s, b, WordSet)
               d == RunEnd(s, c, SpaceSet)
           IN  b > i + 1 /\ c > b /\ d > c /\ d <= Len(s) /\ IsDigit(s[d])

is_valid_date(date_string) ==
    IF date_string = <<>> \/ Strip(date_string) = <<>> THEN FALSE
    ELSE IF Lower(date_string) \in non_date_words THEN FALSE
    ELSE LET s == Lower(date_string)
         IN  DigitsThenWord(s) \/ WordThenDigits(s) \/ DigitsWordDigits(s)

-----------------------------------------------------------------------------
(* ValidateHotelBookingForm.extract_date_range *)

W_to == <<"t","o">>

\* (\d{1,2}) at position i: the index past it (i when there is no digit)
Digits12End(s, i) == Min({RunEnd(s, i, DigitSet), i + 2})

\* (?:st|nd|rd|th)? at position i: the index past it
SuffixEnd(s, i) == IF \E x \in OrdinalSuffixes : MatchAt(s, i, x) THEN i + 2 ELSE i

NoGroups == [ok |-> FALSE, g1 |-> <<>>, g2 |-> <<>>, g3 |-> <<>>]

\* (\d{1,2})\s+to\s+(\d{1,2})\s+(\w+) matched from position i
DayToDayMonthAt(s, i) ==
    LET a == Digits12End(s, i)
        b == RunEnd(s, a, SpaceSet)
        c == b + 2
        d == RunEnd(s, c, SpaceSet)
        e == Digits12End(s, d)
        f == RunEnd(s, e, SpaceSet)
        g == RunEnd(s, f, WordSet)
    IN  IF a > i /\ b > a /\ MatchAt(s, b, W_to) /\ d > c /\ e > d /\ f > e /\ g > f
        THEN [ok |-> TRUE, g1 |-> SubSeq(s, i, a - 1), g2 |-> SubSeq(s, d, e - 1),
              g3 |-> SubSeq(s, f, g - 1)]
        ELSE NoGroups

\* (\d{1,2}\s+\w+)\s+to\s+(\d{1,2}\s+\w+) matched from position i
DateToDateAt(s, i) ==
    LET a  == Digits12End(s, i)
        b  == RunEnd(s, a, SpaceSet)
        c  == RunEnd(s, b, WordSet)
        d  == RunEnd(s, c, SpaceSet)
        e  == d + 2
        f  == RunEnd(s, e, SpaceSet)
        g  == Digits12End(s, f)
        h  == RunEnd(s, g, SpaceSet)
        k  == RunEnd(s, h, WordSet)
    IN  IF a > i /\ b > a /\ c > b /\ d > c /\ MatchAt(s, d, W_to)
           /\ f > e /\ g > f /\ h > g /\ k > h
        THEN [ok |-> TRUE, g1 |-> SubSeq(s, i, c - 1), g2 |-> SubSeq(s, f, k - 1),
              g3 |-> <<>>]
        ELSE NoGroups

\* (\d{1,2}(?:st|nd|rd|th)?)\s+to\s+(\d{1,2}(?:st|nd|rd|th)?) matched from position i
OrdinalToOrdinalAt(s, i) ==
    LET a == Digits12End(s, i)
        b == SuffixEnd(s, a)
        c == RunEnd(s, b, SpaceSet)
        d == c + 2
        e == RunEnd(s, d, SpaceSet)
        f == Digits12End(s, e)
        g == SuffixEnd(s, f)
    IN  IF a > i /\ c > b /\ MatchAt(s, c, W_to) /\ e > d /\ f > e
        THEN [ok |-> TRUE, g1 |-> SubSeq(s, i, b - 1), g2 |-> SubSeq(s, e, g - 1),
              g3 |-> <<>>]
        ELSE NoGroups

\* lines 79-90: the first pattern re.search finds (at its leftmost position) and the
\* two date texts built from its groups
RangeGroups(s) ==
    LET p1 == {i \in 1..Len(s) : DayToDayMonthAt(s, i).ok}
        p2 == {i \in 1..Len(s) : DateToDateAt(s, i).ok}
        p3 == {i \in 1..Len(s) : OrdinalToOrdinalAt(s, i).ok}
    IN  IF p1 # {}
        THEN LET m == DayToDayMonthAt(s, Min(p1))
             IN  [found |-> TRUE, check_in |-> m.g1 \o <<" ">> \o m.g3,
                  check_out |-> m.g2 \o <<" ">> \o m.g3]
        ELSE IF p2 # {}
        THEN LET m == DateToDateAt(s, Min(p2))
             IN  [found |-> TRUE, check_in |-> m.g1, check_out |-> m.g2]
        ELSE IF p3 # {}
        THEN LET m == OrdinalToOrdinalAt(s, Min(p3))
             IN  [found |-> TRUE, check_in |-> m.g1, check_out |-> m.g2]
        ELSE [found |-> FALSE, check_in |-> <<>>, check_out |-> <<>>]

\* lines 92-97: the two texts r of a match parsed, or the empty dict
RangeDates(r, now1, now2) ==
    IF r.found
    THEN [raised |-> FALSE, found |-> TRUE,
          check_in_date |-> parse_date(Str(r.check_in), now1).s,
          check_out_date |-> parse_date(Str(r.check_out), now2).s]
    ELSE [raised |-> FALSE, found |-> FALSE,
          check_in_date |-> <<>>, check_out_date |-> <<>>]

\* extract_date_range(text): now1 and now2 are what datetime.now() returns inside
\* the first and the second parse_date call (lines 93, 94).  text.lower() of None
\* raises AttributeError.
extract_date_range(text, now1, now2) ==
    IF text.t # "str"
    THEN [raised |-> TRUE, found |-> FALSE, check_in_date |-> <<>>, check_out_date |-> <<>>]
    ELSE RangeDates(RangeGroups(Lower(text.s)), now1, now2)

-----------------------------------------------------------------------------
(* ValidateHotelBookingForm.extract_duration *)

W_for == <<"f","o","r">>
W_day == <<"d","a","y">>
W_night == <<"n","i","g","h","t">>
W_stay == <<"s","t","a","y">>

\* for\s+(\d+)\s+<unit>s? matched from position i: the digits of group 1, <<>> if no match
ForUnitAt(s, i, unit) ==
    LET a == i + 3
        b == RunEnd(s, a, SpaceSet)
        c == RunEnd(s, b, DigitSet)
        d == RunEnd(s, c, SpaceSet)
    IN  IF MatchAt(s, i, W_for) /\ b > a /\ c > b /\ d > c /\ MatchAt(s, d, unit)
        THEN SubSeq(s, b, c - 1)
        ELSE <<>>

\* (\d+)\s+<unit>s?\s+stay matched from position i: the digits of group 1, <<>> if no match
UnitStayAt(s, i, unit) ==
    LET c == RunEnd(s, i, DigitSet)
        d == RunEnd(s, c, SpaceSet)
        e == d + Len(unit)
        f == IF MatchAt(s, e, <<"s">>) THEN e + 1 ELSE e
        g == RunEnd(s, f, SpaceSet)
    IN  IF c > i /\ d > c /\ MatchAt(s, d, unit) /\ g > f /\ MatchAt(s, g, W_stay)
        THEN SubSeq(s, i, c - 1)
        ELSE <<>>

NoDuration == [raised |-> FALSE, found |-> FALSE, n |-> 0]
Duration(ds) == [raised |-> FALSE, found |-> TRUE, n |-> IntOf(ds)]

\* found = FALSE is the None the code returns
extract_duration(text) ==
    IF Falsy(text) THEN NoDuration
    ELSE IF text.t # "str" THEN [raised |-> TRUE, found |-> FALSE, n |-> 0]
    ELSE LET s == Lower(text.s)
             p1 == {i \in 1..Len(s) : ForUnitAt(s, i, W_day) # <<>>}
             p2 == {i \in 1..Len(s) : ForUnitAt(s, i, W_night) # <<>>}
             p3 == {i \in 1..Len(s) : UnitStayAt(s, i, W_day) # <<>>}
             p4 == {i \in 1..Len(s) : UnitStayAt(s, i, W_night) # <<>>}
         IN  IF p1 # {} THEN Duration(ForUnitAt(s, Min(p1), W_day))
             ELSE IF p2 # {} THEN Duration(ForUnitAt(s, Min(p2), W_night))
             ELSE IF p3 # {} THEN Duration(UnitStayAt(s, Min(p3), W_day))
             ELSE IF p4 # {} THEN Duration(UnitStayAt(s, Min(p4), W_night))
             ELSE NoDuration

-----------------------------------------------------------------------------
(* The validators.  Each returns [raised, ret, msgs]: whether an exception   *)
(* left the method, the dict of slot updates it returned, and the messages  *)
(* it handed to dispatcher.utter_message, in order.                         *)

NoUpdates == [x \in {} |-> None]
Result(ret, msgs) == [raised |-> FALSE, ret |-> ret, msgs |-> msgs]
Raises == [raised |-> TRUE, ret |-> NoUpdates, msgs |-> <<>>]

non_city_words ==
    {<<"b","a","n","a","n","a">>,
     <<"h","e","l","l","o">>,
     <<"h","i">>,
     <<"t","h","a","n","k","s">>,
     <<"p","l","e","a","s","e">>,
     <<"y","e","s">>,
     <<"n","o">>,
     <<"o","k">>,
     <<"o","k","a","y">>,
     <<"t","o","m","o","r","r","o","w">>,
     <<"t","o","d","a","y">>,
     <<"s","u","r","e">>}

validate_city(value) ==
    IF Falsy(value)
    THEN Result("city" :> None, <<"Please enter a city name.">>)
    ELSE IF value.t # "str" THEN Raises            \* .strip() of a number: AttributeError
    ELSE IF Strip(value.s) = <<>>
    THEN Result("city" :> None, <<"Please enter a city name.">>)
    ELSE LET v == Strip(value.s)
         IN  IF IsDigitStr(v) \/ Lower(v) \in non_city_words
             THEN Result("city" :> None, <<"That doesn't look like a city name.">>)
             ELSE Result("city" :> Str(Title(v)), <<>>)

\* Variant of validate_check_in_date that tries the slot value before the utterance's
\* date range: the single-date path wins whenever the value is date-shaped.
validate_check_in_date_ValueFirst(value, text, initial_text, now1, now2) ==
    LET date_range == extract_date_range(text, now1, now2)
        parsed     == parse_date(value, now1)
    IN  IF parsed.raised \/ date_range.raised THEN Raises
        ELSE IF is_valid_date(parsed.s)
        THEN Result("check_in_date" :> Str(parsed.s), <<>>)
        ELSE IF date_range.found
        THEN Result(("check_in_date" :> Str(date_range.check_in_date))
                        @@ ("check_out_date" :> Str(date_range.check_out_date)),
                    <<"Got it! Check-in on ... and check-out on ...">>)
        ELSE Result("check_in_date" :> None, <<"That doesn't look like a date.">>)

\* Variant of validate_check_in_date whose rejection clears check_out_date as well.
validate_check_in_date_ClearsBoth(value, text, initial_text, now1, now2) ==
    LET date_range == extract_date_range(text, now1, now2)
        parsed     == parse_date(value, now1)
    IN  IF date_range.raised THEN Raises
        ELSE IF date_range.found
        THEN Result(("check_in_date" :> Str(date_range.check_in_date))
                        @@ ("check_out_date" :> Str(date_range.check_out_date)),
                    <<"Got it! Check-in on ... and check-out on ...">>)
        ELSE IF parsed.raised THEN Raises
        ELSE IF is_valid_date(parsed.s)
        THEN Result("check_in_date" :> Str(parsed.s), <<>>)
        ELSE Result(("check_in_date" :> None) @@ ("check_out_date" :> None),
                    <<"That doesn't look like a date.">>)

\* lines 210-242: the outcome, from the range extracted from the utterance, the
\* parsed value and the duration extracted from the initial message
CheckInOutcome(date_range, parsed, duration, now2) ==
        IF date_range.raised THEN Raises
        ELSE IF date_range.found
        THEN Result(("check_in_date" :> Str(date_range.check_in_date))
                        @@ ("check_out_date" :> Str(date_range.check_out_date)),
                    <<"Got it! Check-in on ... and check-out on ...">>)
        ELSE IF parsed.raised THEN Raises
        ELSE IF is_valid_date(parsed.s)
        THEN IF duration.raised THEN Raises
             ELSE IF duration.found /\ duration.n # 0      \* `if duration:`
             THEN Result(("check_in_date" :> Str(parsed.s))
                             @@ ("check_out_date" :>
                                     Str(calculate_checkout(parsed.s, duration.n, now2))),
                         <<"Check-in: ..., Check-out: ... (N days)">>)
             ELSE Result("check_in_date" :> Str(parsed.s), <<>>)
        ELSE Result("check_in_date" :> None, <<"That doesn't look like a date.">>)

\* text is tracker.latest_message.get('text', ''), initial_text is
\* tracker.slots.get('initial_message', ''); now1 and now2 are what datetime.now()
\* returns in the first and in the second of the method's date computations
validate_check_in_date(value, text, initial_text, now1, now2) ==
    CheckInOutcome(extract_date_range(text, now1, now2), parse_date(value, now1),
                   extract_duration(initial_text), now2)

\* Variant of validate_check_out_date that rejects without a message.
validate_check_out_date_Silent(value, now1) ==
    LET parsed == parse_date(value, now1)
    IN  IF parsed.raised THEN Raises
        ELSE IF is_valid_date(parsed.s)
        THEN Result("check_out_date" :> Str(parsed.s), <<>>)
        ELSE Result("check_out_date" :> None, <<>>)

validate_check_out_date(value, now1) ==
    LET parsed == parse_date(value, now1)
    IN  IF parsed.raised THEN Raises
        ELSE IF is_valid_date(parsed.s)
        THEN Result("check_out_date" :> Str(parsed.s), <<>>)
        ELSE Result("check_out_date" :> None, <<"That doesn't look like a date.">>)

word_to_num == <<<<"o","n","e">>,
                 <<"t","w","o">>,
                 <<"t","h","r","e","e">>,
                 <<"f","o","u","r">>,
                 <<"f","i","v","e">>,
                 <<"s","i","x">>,
                 <<"s","e","v","e","n">>,
                 <<"e","i","g","h","t">>,
                 <<"n","i","n","e">>,
                 <<"t","e","n">>>>

WordNumbers == Range(word_to_num)

\* re.search(r'\d+', s).group(): the first run of digits, <<>> when there is none
FirstDigitRun(s) ==
    LET ds == {i \in 1..Len(s) : IsDigit(s[i])}
    IN  IF ds = {} THEN <<>>
        ELSE SubSeq(s, Min(ds), RunEnd(s, Min(ds), DigitSet) - 1)

\* int(float(x)) of a number kept in tenths: truncation toward zero
Truncate(tenths) == IF tenths >= 0 THEN tenths \div 10 ELSE -((-tenths) \div 10)

\* lines 299-305
GuestsInRange(guests) ==
    IF 1 <= guests /\ guests <= 50
    THEN Result("number_of_guests" :> Num(10 * guests), <<>>)
    ELSE Result("number_of_guests" :> None,
                <<"Number of guests should be between 1 and 50.">>)

NotANumber == Result("number_of_guests" :> None, <<"That doesn't look like a number.">>)

validate_number_of_guests(value) ==
    IF value.t = "none" \/ (value.t = "str" /\ Strip(value.s) = <<>>)
    THEN Result("number_of_guests" :> None, <<"Please enter the number of guests.">>)
    ELSE IF value.t = "str"
    THEN LET value_lower == Strip(Lower(value.s))
         IN  IF value_lower \in WordNumbers
             THEN GuestsInRange(IndexOf(value_lower, word_to_num))
             ELSE IF FirstDigitRun(value.s) # <<>>
             THEN GuestsInRange(IntOf(FirstDigitRun(value.s)))
             ELSE NotANumber                        \* ValueError("Not a number"), caught
    ELSE IF value.t = "nan" THEN NotANumber         \* int(nan): ValueError, caught
    ELSE IF value.t = "inf" THEN Raises             \* int(inf): OverflowError, not caught
    ELSE GuestsInRange(Truncate(value.n))

-----------------------------------------------------------------------------
(* ActionStoreInitialMessage.run: entities is the list of extracted         *)
(* entities, nows[i] what datetime.now() returns while entity i is parsed.  *)
(* The result is the list of SlotSet events, or the exception.              *)

SlotSet(name, value) == [name |-> name, value |-> value]

DateEntities == {"check_in_date", "check_out_date"}

run(text, entities, nows) ==
    LET dated == {i \in 1..Len(entities) : entities[i].entity \in DateEntities}
        event(i) == SlotSet(entities[i].entity, Str(parse_date(entities[i].value, nows[i]).s))
        RECURSIVE events(_)
        events(i) == IF i > Len(entities) THEN <<>>
                     ELSE IF i \in dated THEN <<event(i)>> \o events(i + 1)
                     ELSE events(i + 1)
    IN  IF \E i \in dated : parse_date(entities[i].value, nows[i]).raised
        THEN [raised |-> TRUE, events |-> <<>>]
        ELSE [raised |-> FALSE,
              events |-> <<SlotSet("initial_message", text)>> \o events(1)]

-----------------------------------------------------------------------------
(* The texts and values the dialogue manager supplies in the model *)

T_tomorrow == Str(<<"t","o","m","o","r","r","o","w">>)
T_banana == Str(<<"b","a","n","a","n","a">>)
T_29_Feb == Str(<<"2","9"," ","F","e","b">>)
T_10th_to_12th == Str(<<"1","0","t","h"," ","t","o"," ","1","2","t","h">>)
T_5_to_8_may == Str(<<"5"," ","t","o"," ","8"," ","m","a","y">>)
T_1_jan_to_5_jan == Str(<<"1"," ","j","a","n"," ","t","o"," ","5"," ","j","a","n">>)
T_10th_to_10th == Str(<<"1","0","t","h"," ","t","o"," ","1","0","t","h">>)
T_for_3_nights == Str(<<"b","o","o","k"," ","a"," ","r","o","o","m"," ","f","o","r"," ","3"," ","n","i","g","h","t","s">>)
T_for_0_days == Str(<<"f","o","r"," ","0"," ","d","a","y","s">>)
T_2_days_stay == Str(<<"2"," ","d","a","y","s"," ","s","t","a","y">>)
T_new_york == Str(<<"n","e","w"," ","y","o","r","k">>)
T_hello == Str(<<"h","e","l","l","o">>)
T_123 == Str(<<"1","2","3">>)
T_blank == Str(<<" ">>)
T_two == Str(<<"t","w","o">>)
T_3_people == Str(<<"3"," ","p","e","o","p","l","e">>)
T_51 == Str(<<"5","1">>)
T_abc == Str(<<"a","b","c">>)

\* slot values for the two date validators: a relative date, a filler word, a date
\* strptime rejects, a number
DateValues == {T_tomorrow, T_banana, T_29_Feb, Num(50)}

\* latest utterances seen by the check-in validator: None, no range, the three range shapes
Utterances == {None, T_tomorrow, T_10th_to_12th, T_5_to_8_may, T_1_jan_to_5_jan, T_10th_to_10th}

\* utterances that start the form
InitialUtterances == {None, T_for_3_nights, T_for_0_days, T_2_days_stay}

Entity(entity, value) == [entity |-> entity, value |-> value]

\* entity lists of the initiating message
EntityLists ==
    {<<>>,
     <<Entity("city", T_new_york), Entity("check_out_date", T_banana)>>,
     <<Entity("check_in_date", T_tomorrow), Entity("check_out_date", T_tomorrow)>>,
     <<Entity("check_in_date", Num(50))>>}

CityValues == {T_blank, T_123, T_hello, T_new_york, Num(1230)}

GuestValues == {None, T_two, T_3_people, T_51, T_abc, Num(27), NaN, Inf}

\* the instants a behaviour may start at
StartNows == {[y |-> 2024, m |-> 5, d |-> 10, t |-> 1]}

-----------------------------------------------------------------------------
(* The state machine: the dialogue manager calls the initial-message action *)
(* and the validators, and applies the slot updates each returns; an        *)
(* invocation that raises returns no update.  Of the tracker's slots the    *)
(* model keeps the three this code reads or fills with dates; the updates   *)
(* to city and number_of_guests are in the recorded result.                 *)

SlotNames == {"check_in_date", "check_out_date", "initial_message"}

\* the clock's next instant: later the same day, then midnight of the next day
Advance(now) == IF now.t = 0 THEN [now EXCEPT !.t = 1] ELSE [AddDays(now, 1) EXCEPT !.t = 0]

\* what a later datetime.now() of the same invocation may return
LaterSamples == IF ticks < MaxTicks THEN {clock, Advance(clock)} ELSE {clock}

EmptySlots == [k \in SlotNames |-> None]

\* the record of an invocation: op, the inputs (value, text, entities, n, the slots
\* before it), the clock readings nows, and the outcome (raised, ret or events or out, msgs)
NoCall == [op |-> "none", value |-> None, text |-> None, entities |-> <<>>, n |-> 0,
           before |-> EmptySlots, nows |-> <<>>, raised |-> FALSE, ret |-> NoUpdates,
           events |-> <<>>, msgs |-> <<>>, out |-> <<>>]

\* tracker.slots.update(validation_output)
Apply(old, ret) == [k \in SlotNames |-> IF k \in DOMAIN ret THEN ret[k] ELSE old[k]]

\* the SlotSet events of a list applied in order
RECURSIVE ApplyEvents(_, _)
ApplyEvents(old, events) ==
    IF events = <<>> THEN old
    ELSE ApplyEvents([old EXCEPT ![Head(events).name] = Head(events).value], Tail(events))

Init ==
    /\ clock \in StartNows
    /\ ticks = 0
    /\ calls = 0
    /\ slots = EmptySlots
    /\ call = NoCall

Tick ==
    /\ ticks < MaxTicks
    /\ clock' = Advance(clock)
    /\ ticks' = ticks + 1
    /\ UNCHANGED <<calls, slots, call>>

\* a validator's result r recorded and its updates applied
Returns(op, value, text, nows, r) ==
    /\ call' = [NoCall EXCEPT !.op = op, !.value = value, !.text = text,
                              !.before = slots, !.nows = nows,
                              !.raised = r.raised, !.ret = r.ret, !.msgs = r.msgs]
    /\ slots' = IF r.raised THEN slots ELSE Apply(slots, r.ret)
    /\ calls' = calls + 1

\* the clock after an invocation whose last sample was now2
ClockAt(now2) ==
    /\ clock' = now2
    /\ ticks' = IF now2 = clock THEN ticks ELSE ticks + 1

\* run() reads the clock once per date entity: a second reading exists with two of them
RunReadsTwice(entities) ==
    Cardinality({i \in 1..Len(entities) : entities[i].entity \in DateEntities}) > 1

StoreInitialMessage ==
    /\ calls < MaxCalls
    /\ \E text \in InitialUtterances, entities \in EntityLists, now2 \in LaterSamples :
        LET nows == [i \in 1..Len(entities) |-> IF i = 1 THEN clock ELSE now2]
            r    == run(text, entities, nows)
        IN  /\ now2 # clock => RunReadsTwice(entities)
            /\ call' = [NoCall EXCEPT !.op = "action_store_initial_message", !.text = text,
                                      !.entities = entities, !.before = slots,
                                      !.nows = nows,
                                      !.raised = r.raised, !.events = r.events]
            /\ slots' = ApplyEvents(slots, r.events)
            /\ calls' = calls + 1
            /\ ClockAt(now2)

ValidateCity ==
    /\ calls < MaxCalls
    /\ \E value \in CityValues :
        LET r == validate_city(value)
        IN  /\ Returns("validate_city", value, None, <<>>, r)
            /\ UNCHANGED <<clock, ticks>>

\* validate_check_in_date reads the clock a second time when it parses the second end
\* of a range (line 94) and when it derives the check-out (line 146)
ReadsTwice(date_range, parsed, duration) ==
    /\ ~date_range.raised
    /\ \/ date_range.found
       \/ /\ ~parsed.raised
          /\ is_valid_date(parsed.s)
          /\ ~duration.raised
          /\ duration.found
          /\ duration.n # 0

CheckInReadsTwice(value, text, initial_text, now1) ==
    ReadsTwice(extract_date_range(text, now1, now1), parse_date(value, now1),
               extract_duration(initial_text))

ValidateCheckIn ==
    /\ calls < MaxCalls
    /\ \E value \in DateValues, text \in Utterances, now2 \in LaterSamples :
        LET r == validate_check_in_date(value, text, slots["initial_message"], clock, now2)
        IN  /\ now2 # clock => CheckInReadsTwice(value, text, slots["initial_message"], clock)
            /\ Returns("validate_check_in_date", value, text, <<clock, now2>>, r)
            /\ ClockAt(now2)

ValidateCheckOut ==
    /\ calls < MaxCalls
    /\ \E value \in DateValues :
        LET r == validate_check_out_date(value, clock)
        IN  /\ Returns("validate_check_out_date", value, None, <<clock>>, r)
            /\ UNCHANGED <<clock, ticks>>

ValidateGuests ==
    /\ calls < MaxCalls
    /\ \E value \in GuestValues :
        LET r == validate_number_of_guests(value)
        IN  /\ Returns("validate_number_of_guests", value, None, <<>>, r)
            /\ UNCHANGED <<clock, ticks>>

Next ==
    \/ Tick
    \/ StoreInitialMessage
    \/ ValidateCity
    \/ ValidateCheckIn
    \/ ValidateCheckOut
    \/ ValidateGuests

Spec == Init /\ [][Next]_vars

-----------------------------------------------------------------------------
(* Properties of the dialogue (specification Spec) *)

\* the canonical "DD Mon" month names, as the specification writes them
CanonicalMonths == <<<<"J","a","n">>, <<"F","e","b">>, <<"M","a","r">>, <<"A","p","r">>,
                     <<"M","a","y">>, <<"J","u","n">>, <<"J","u","l">>, <<"A","u","g">>,
                     <<"S","e","p">>, <<"O","c","t">>, <<"N","o","v">>, <<"D","e","c">>>>

\* the days a month has in some year (29 Feb is a real calendar day)
MostDays(m) == IF m = 2 THEN 29 ELSE IF m \in {4, 6, 9, 11} THEN 30 ELSE 31

\* s is "DD Mon": zero-padded day, blank, month abbreviation, and the day exists
IsCanonicalDate(s) ==
    /\ Len(s) = 6
    /\ s[1] \in DigitSet /\ s[2] \in DigitSet /\ s[3] = " "
    /\ \E m \in 1..12 :
        /\ SubSeq(s, 4, 6) = CanonicalMonths[m]
        /\ 10 * DigitVal(s[1]) + DigitVal(s[2]) \in 1..MostDays(m)

IsValidatorCall == call.op \in {"validate_city", "validate_check_in_date",
                                "validate_check_out_date", "validate_number_of_guests"}

\* the slot a validator validates: validate_<slot>
FieldOf(op) ==
    IF op = "validate_city" THEN "city"
    ELSE IF op = "validate_check_in_date" THEN "check_in_date"
    ELSE IF op = "validate_check_out_date" THEN "check_out_date"
    ELSE "number_of_guests"

\* the invocation returned a value for its field / returned its field cleared
Accepted == ~call.raised /\ FieldOf(call.op) \in DOMAIN call.ret
                /\ call.ret[FieldOf(call.op)] # None
Rejected == ~call.raised /\ FieldOf(call.op) \in DOMAIN call.ret
                /\ call.ret[FieldOf(call.op)] = None

BothDates == {"check_in_date", "check_out_date"}

\* C1: after any sequence of invocations each date slot is unset or a canonical
\* "DD Mon" string of a real calendar day.
C1_DateSlotsCanonical ==
    \A k \in BothDates :
        slots[k] = None \/ (slots[k].t = "str" /\ IsCanonicalDate(slots[k].s))

\* C2: no invocation raises: every validator and the initial-message action return
\* a result for every str, number or None input.
C2_NoExceptionPropagates == ~call.raised

RangeEnds(text) ==
    IF text = T_10th_to_12th THEN <<<<"1","0","t","h">>, <<"1","2","t","h">>>>
    ELSE IF text = T_5_to_8_may THEN <<<<"5"," ","m","a","y">>, <<"8"," ","m","a","y">>>>
    ELSE IF text = T_1_jan_to_5_jan THEN <<<<"1"," ","j","a","n">>, <<"5"," ","j","a","n">>>>
    ELSE IF text = T_10th_to_10th THEN <<<<"1","0","t","h">>, <<"1","0","t","h">>>>
    ELSE <<>>

\* C4: with a date range in the latest utterance one call of the check-in validator
\* sets check_in_date and check_out_date to the two normalized ends of the range,
\* whatever the slot value and the stored initial message are.
C4_RangeSetsBothDates ==
    (call.op = "validate_check_in_date" /\ RangeEnds(call.text) # <<>>) =>
        /\ ~call.raised
        /\ call.ret = ("check_in_date" :>
                           Str(parse_date(Str(RangeEnds(call.text)[1]), call.nows[1]).s))
                      @@ ("check_out_date" :>
                           Str(parse_date(Str(RangeEnds(call.text)[2]), call.nows[2]).s))
        /\ slots["check_in_date"] = call.ret["check_in_date"]
        /\ slots["check_out_date"] = call.ret["check_out_date"]
        /\ call.msgs = <<"Got it! Check-in on ... and check-out on ...">>

\* C4 witness: a range utterance arrived with a slot value that is no date and with a
\* duration phrase in the stored initial message
C4_Witness ==
    /\ call.op = "validate_check_in_date"
    /\ call.text = T_5_to_8_may
    /\ call.value = T_banana
    /\ call.before["initial_message"] = T_for_3_nights
    /\ slots["check_out_date"] = Str(<<"0","8"," ","M","a","y">>)

\* the number written in the duration phrase of an initial message of the model
WrittenDuration(text) ==
    IF text = T_for_3_nights THEN 3
    ELSE IF text = T_for_0_days THEN 0
    ELSE IF text = T_2_days_stay THEN 2
    ELSE -1

\* C5: without a range in the utterance, with a slot value that normalizes to a
\* date-shaped string and a duration phrase "N days/nights" in the stored initial
\* message, the check-in validator returns both dates, the check-out derived with N.
C5_DurationDerivesCheckOut ==
    ( /\ call.op = "validate_check_in_date"
      /\ call.text.t = "str" /\ RangeEnds(call.text) = <<>>
      /\ call.value.t = "str"
      /\ is_valid_date(parse_date(call.value, call.nows[1]).s)
      /\ WrittenDuration(call.before["initial_message"]) >= 0 ) =>
        /\ ~call.raised
        /\ DOMAIN call.ret = BothDates
        /\ call.ret["check_out_date"] =
              Str(calculate_checkout(call.ret["check_in_date"].s,
                                     WrittenDuration(call.before["initial_message"]),
                                     call.nows[2]))

\* C9: every date of one check-in validation is computed against one reading of the
\* clock: the result is the one a single fixed now gives.
C9_SingleClockReading ==
    (call.op = "validate_check_in_date" /\ ~call.raised) =>
        \E now \in Range(call.nows) :
            call.ret = validate_check_in_date(call.value, call.text,
                                              call.before["initial_message"], now, now).ret

\* C10 (as claimed): after a rejection by the check-in validator both date slots are
\* unset and one message was emitted.
C10_RejectionUnsetsBothDates ==
    (call.op = "validate_check_in_date" /\ Rejected) =>
        /\ slots["check_in_date"] = None
        /\ slots["check_out_date"] = None
        /\ Len(call.msgs) = 1

\* C10 (amended): after a rejection by the check-in validator check_in_date is unset,
\* check_out_date is what it was before the call, and one message was emitted.
C10_RejectionKeepsCheckOut ==
    (call.op = "validate_check_in_date" /\ Rejected) =>
        /\ slots["check_in_date"] = None
        /\ slots["check_out_date"] = call.before["check_out_date"]
        /\ Len(call.msgs) = 1

\* C10 witness: the check-in validator rejected while check_out_date was filled
C10_Witness ==
    /\ call.op = "validate_check_in_date"
    /\ Rejected
    /\ call.before["check_out_date"] # None
    /\ slots["check_out_date"] # None

-----------------------------------------------------------------------------
(* The date functions on their own: parse_date and calculate_checkout are   *)
(* called once at an instant of the reference calendar.                     *)

\* every instant of the reference calendar: each day of SpanYears years from
\* BaseYear, at midnight (t = 0) or later that day (t = 1)
ReferenceDates ==
    {now \in [y : BaseYear..(BaseYear + SpanYears - 1), m : 1..12, d : 1..31, t : 0..1] :
        now.d <= DaysInMonth(now.y, now.m)}

\* str(d)
DayText(d) ==
    IF d < 10 THEN <<DigitChars[d + 1]>>
    ELSE <<DigitChars[(d \div 10) + 1], DigitChars[(d % 10) + 1]>>

\* "DD Mon" of day d of month m
CanonicalText(d, m) ==
    <<DigitChars[(d \div 10) + 1], DigitChars[(d % 10) + 1], " ">> \o CanonicalMonths[m]

InitDates ==
    /\ clock \in ReferenceDates
    /\ ticks = 0
    /\ calls = 0
    /\ slots = EmptySlots
    /\ call = NoCall

\* parse_date(value) called once, at the instant clock; n records the number the input was
\* written from
Normalizes(value, n) ==
    /\ calls = 0
    /\ calls' = 1
    /\ call' = [NoCall EXCEPT !.op = "parse_date", !.value = Str(value), !.n = n,
                              !.nows = <<clock>>,
                              !.raised = parse_date(Str(value), clock).raised,
                              !.out = parse_date(Str(value), clock).s]
    /\ UNCHANGED <<clock, ticks, slots>>

\* a bare day of the month, written as a number
NormalizeBareDay == \E d \in 1..31 : Normalizes(DayText(d), d)

\* a bare day of the month, written with an ordinal suffix
NormalizeOrdinalDay == \E d \in 1..31, suffix \in OrdinalSuffixes : Normalizes(DayText(d) \o suffix, d)

NextBareDay == NormalizeBareDay \/ NormalizeOrdinalDay

SpecBareDay == InitDates /\ [][NextBareDay]_vars

\* C6: for every reference date and every bare day of the month d in 1..31, written
\* "d" or with an ordinal suffix, normalization yields "DD Mon" of day d of the
\* reference month when d >= the reference day, of the following month (January of
\* the next year after December) when d < the reference day; when the target month
\* has no day d the step fails and the input comes back from the fallback.
C6_BareDayCurrentOrNextMonth ==
    (call.op = "parse_date" /\ call.n \in 1..31) =>
        LET now == call.nows[1]
            d   == call.n
            ty  == IF d < now.d /\ now.m = 12 THEN now.y + 1 ELSE now.y
            tm  == IF d >= now.d THEN now.m ELSE IF now.m = 12 THEN 1 ELSE now.m + 1
        IN  /\ ~call.raised
            /\ call.out = IF d <= DaysInMonth(ty, tm) THEN CanonicalText(d, tm)
                          ELSE call.value.s

\* C6 witness: in December a day before the reference day resolved to January
C6_Witness ==
    /\ call.op = "parse_date"
    /\ call.nows[1].m = 12
    /\ call.n < call.nows[1].d
    /\ call.value.s = DayText(call.n) \o <<"t","h">>
    /\ call.out = CanonicalText(call.n, 1)

\* the reference instants at the start, the middle and the end of each month
MonthEdgeDates == {now \in ReferenceDates : now.d \in {1, 15} \/ now.d >= 28}

InitMonthEdges ==
    /\ clock \in MonthEdgeDates
    /\ ticks = 0
    /\ calls = 0
    /\ slots = EmptySlots
    /\ call = NoCall

\* a canonical "DD Mon" string of a real calendar day
NormalizeCanonical ==
    \E m \in 1..12 : \E d \in 1..MostDays(m) : Normalizes(CanonicalText(d, m), 0)

\* a string that is no date at all
NormalizeOther == Normalizes(T_banana.s, 0)

NextCanonical == NormalizeCanonical \/ NormalizeOther

SpecCanonical == InitMonthEdges /\ [][NextCanonical]_vars

\* C7: normalization returns every canonical "DD Mon" string of a real calendar day
\* unchanged, character for character, at every reference now.
C7_CanonicalIsFixedPoint ==
    (call.op = "parse_date" /\ IsCanonicalDate(call.value.s)) =>
        ~call.raised /\ call.out = call.value.s

\* calculate_checkout(checkin_date, duration_days) called once, at the instant clock
Derives(checkin_date, duration_days) ==
    /\ calls = 0
    /\ calls' = 1
    /\ call' = [NoCall EXCEPT !.op = "calculate_checkout", !.value = Str(checkin_date),
                              !.n = duration_days, !.nows = <<clock>>,
                              !.out = calculate_checkout(checkin_date, duration_days, clock)]
    /\ UNCHANGED <<clock, ticks, slots>>

\* the days of a month the derivation is tried from: its start, middle and end
CheckInDays(m) == {d \in 1..MostDays(m) : d \in {1, 15} \/ d >= 27}

\* a canonical check-in and a duration
DeriveCheckout ==
    \E m \in 1..12, duration_days \in 0..MaxDuration :
        \E d \in CheckInDays(m) : Derives(CanonicalText(d, m), duration_days)

\* a check-in that is no date
DeriveFromOther == \E duration_days \in 0..MaxDuration : Derives(T_banana.s, duration_days)

NextCheckout == DeriveCheckout \/ DeriveFromOther

SpecCheckout == InitMonthEdges /\ [][NextCheckout]_vars

\* the day and the month written in a canonical "DD Mon" string
CanonicalDay(s) == 10 * DigitVal(s[1]) + DigitVal(s[2])
CanonicalMonth(s) == CHOOSE m \in 1..12 : SubSeq(s, 4, 6) = CanonicalMonths[m]

\* C8: a canonical check-in is resolved to the current year, or to the next year when
\* that date is strictly before now, durationDays calendar days are added and the
\* result is re-emitted as "DD Mon" (also across month ends, February in leap and
\* common years, and year ends); a check-in that does not parse is returned unchanged.
\* The formula speaks of the check-ins whose day exists in the resolved year.
C8_CheckoutAddsDays ==
    (call.op = "calculate_checkout") =>
        IF IsCanonicalDate(call.value.s)
        THEN LET now  == call.nows[1]
                 d    == CanonicalDay(call.value.s)
                 m    == CanonicalMonth(call.value.s)
                 y    == IF Before([y |-> now.y, m |-> m, d |-> d, t |-> 0], now)
                         THEN now.y + 1 ELSE now.y
             IN  (d <= DaysInMonth(now.y, m) /\ d <= DaysInMonth(y, m)) =>
                     call.out = Strftime(AddDays([y |-> y, m |-> m, d |-> d, t |-> 0], call.n))
        ELSE call.out = call.value.s

=============================================================================
